---- MODULE Spec2Model ----
(***************************************************************************)
(* Model of models/amazon_backend/common.py: the amazon.backend record     *)
(* set, its sale-import watermarks and the scheduler entry points that     *)
(* dispatch, through _amazon_backend, to the per-backend operations.       *)
(*                                                                         *)
(* A datetime is an integer number of clock ticks (TicksPerSecond ticks a  *)
(* second).  A Datetime field holds either NoDate (the ORM's False) or the *)
(* '%Y-%m-%d %H:%M:%S' string of a datetime, represented by its whole      *)
(* number of seconds.  Every call the code makes on a collaborator is      *)
(* appended to the run's call trace, in program order.                     *)
(***************************************************************************)
EXTENDS Integers, Sequences, FiniteSets, TLC

\* ---- bounds of the model -------------------------------------------------
NumBackends == 2
MaxTicks == 1
MaxMessages == 2
MaxDetails == 2

\* ---- constants of the program --------------------------------------------
\* timedelta(minutes=2), in seconds
IMPORT_END_DELAY == 120
\* sub-second resolution of datetime.today(), dropped by strftime
TicksPerSecond == 2
\* wall clock at the first run, in ticks (122.5 s)
FirstClock == 245
\* a datetime passed explicitly by a caller (2.5 s)
ExplicitTime == 5
\* cap on the price-change messages recovered per backend
AMAZON_NUMBER_MESSAGES_CHANGE_PRICE_RECOVER == 1

None == -1
NoDate == -1

Backends == 1..NumBackends
Domains == SUBSET Backends

VARIABLES
    clock,                              \* datetime.today(), in ticks
    import_sales_from_date,             \* field, per backend
    import_updated_sales_from_date,     \* field, per backend
    sqs_account_id,                     \* field, per backend: has an SQS account
    sqs_messages,                       \* unprocessed amazon.config.sqs.message rows, by create_date: owner backend
    prev_date_end,                      \* date_end given to import_batch by the previous _import_sale_orders run, per backend
    lastRun                             \* the last run the scheduler started: entry point, call trace, outcome

vars == <<clock, import_sales_from_date, import_updated_sales_from_date,
          sqs_account_id, sqs_messages, prev_date_end, lastRun>>

\* ---- datetime <-> field ---------------------------------------------------
\* datetime.strftime('%Y-%m-%d %H:%M:%S'): the sub-second part is dropped
strftime(d) == d \div TicksPerSecond

\* datetime.strptime(s, '%Y-%m-%d %H:%M:%S')
strptime(s) == s * TicksPerSecond

\* the end time taken from datetime.today() as it is, sub-second part included
DefaultEndTime_NotTruncated(now) == now - IMPORT_END_DELAY * TicksPerSecond

\* datetime.strptime(datetime.today().strftime(F), F) - timedelta(minutes=2)
DefaultEndTime(now) == strptime(strftime(now)) - IMPORT_END_DELAY * TicksPerSecond

\* ---- call trace -----------------------------------------------------------
Call(op, backend, x, y) ==
    [op |-> op, backend |-> backend, date_start |-> x, date_end |-> y, arg |-> None]

\* a call whose argument is a record id (a message, a product) and no date window
CallArg(op, backend, id) ==
    [op |-> op, backend |-> backend, date_start |-> None, date_end |-> None, arg |-> id]

\* self.search(domain): the matching backends, in id order
Search(domain) == SelectSeq([i \in 1..NumBackends |-> i], LAMBDA b : b \in domain)

\* the state a method works on while it runs over its recordset
RunState(sales, updated, messages, start, end) ==
    [sales |-> sales, updated |-> updated, messages |-> messages,
     start |-> start, end |-> end, calls |-> <<>>, error |-> "none"]

\* ---- _import_sale_orders: one iteration of `for backend in self` ------------
SaleOrdersEndTime(st, now) == IF st.end = None THEN DefaultEndTime(now) ELSE st.end

SaleOrdersStartTime(st, backend, end) ==
    IF st.start = None
    THEN IF st.sales[backend] # NoDate THEN strptime(st.sales[backend]) ELSE end
    ELSE st.start

\* the watermark written before import_batch is called, whatever import_batch then does
ImportSaleOrdersBackend_WriteFirst(st, backend, now, generate_report, update_import_date, fail, report_id) ==
    LET updated == IF st.updated[backend] = NoDate
                   THEN [st.updated EXCEPT ![backend] = st.sales[backend]]
                   ELSE st.updated
        end     == SaleOrdersEndTime(st, now)
        start   == SaleOrdersStartTime(st, backend, end)
        op      == IF generate_report THEN "report.import_batch.submit_sales_request"
                                      ELSE "sale.import_batch"
        written == IF update_import_date
                   THEN Append(st.calls, Call("write.import_sales_from_date", backend, None, end))
                   ELSE st.calls
        called  == Append(written, Call(op, backend, start, end))
        queued  == IF generate_report /\ report_id
                   THEN Append(called, Call("report.with_delay.import_batch.get_sales", backend, None, None))
                   ELSE called
        s1      == [st EXCEPT !.updated = updated, !.start = start, !.end = end,
                              !.sales = IF update_import_date
                                        THEN [st.sales EXCEPT ![backend] = strftime(end)]
                                        ELSE st.sales]
    IN  IF fail = backend
        THEN [s1 EXCEPT !.calls = called, !.error = "import_batch"]
        ELSE [s1 EXCEPT !.calls = queued]

ImportSaleOrdersBackend(st, backend, now, generate_report, update_import_date, fail, report_id) ==
    LET updated == IF st.updated[backend] = NoDate
                   THEN [st.updated EXCEPT ![backend] = st.sales[backend]]
                   ELSE st.updated
        end     == SaleOrdersEndTime(st, now)
        start   == SaleOrdersStartTime(st, backend, end)
        op      == IF generate_report THEN "report.import_batch.submit_sales_request"
                                      ELSE "sale.import_batch"
        called  == Append(st.calls, Call(op, backend, start, end))
        queued  == IF generate_report /\ report_id
                   THEN Append(called, Call("report.with_delay.import_batch.get_sales", backend, None, None))
                   ELSE called
        s1      == [st EXCEPT !.updated = updated, !.start = start, !.end = end]
    IN  IF fail = backend
        THEN [s1 EXCEPT !.calls = called, !.error = "import_batch"]
        ELSE IF update_import_date
             THEN [s1 EXCEPT !.calls = Append(queued, Call("write.import_sales_from_date", backend, None, end)),
                             !.sales = [st.sales EXCEPT ![backend] = strftime(end)]]
             ELSE [s1 EXCEPT !.calls = queued]

RECURSIVE ImportSaleOrdersLoop(_, _, _, _, _, _, _, _)
ImportSaleOrdersLoop(st, self, i, now, generate_report, update_import_date, fail, report_id) ==
    IF i > Len(self) \/ st.error # "none"
    THEN st
    ELSE ImportSaleOrdersLoop(
            ImportSaleOrdersBackend(st, self[i], now, generate_report, update_import_date, fail, report_id),
            self, i + 1, now, generate_report, update_import_date, fail, report_id)

\* ---- _import_updated_sales: one iteration -----------------------------------
UpdatedSalesHasStart(st, backend) == st.sales[backend] # NoDate

ImportUpdatedSalesBackend(st, backend, now, update_import_date, fail) ==
    LET end == IF st.end = None THEN DefaultEndTime(now) ELSE st.end
        s1  == [st EXCEPT !.end = end]
    IN  IF st.start = None /\ UpdatedSalesHasStart(st, backend) /\ st.updated[backend] = NoDate
        THEN \* strptime(False, ...) raises TypeError
             [s1 EXCEPT !.calls = Append(st.calls, Call("strptime.import_updated_sales_from_date", backend, NoDate, None)),
                        !.error = "TypeError"]
        ELSE LET start  == IF st.start = None
                           THEN IF UpdatedSalesHasStart(st, backend)
                                THEN strptime(st.updated[backend]) ELSE end
                           ELSE st.start
                 parsed == IF st.start = None /\ UpdatedSalesHasStart(st, backend)
                           THEN Append(st.calls, Call("strptime.import_updated_sales_from_date", backend, st.updated[backend], None))
                           ELSE st.calls
                 called == Append(parsed, Call("sale.import_batch.update", backend, start, end))
                 s2     == [s1 EXCEPT !.start = start]
             IN  IF fail = backend
                 THEN [s2 EXCEPT !.calls = called, !.error = "import_batch"]
                 ELSE IF update_import_date
                      THEN [s2 EXCEPT !.calls = Append(called, Call("write.import_updated_sales_from_date", backend, None, end)),
                                      !.updated = [st.updated EXCEPT ![backend] = strftime(end)]]
                      ELSE [s2 EXCEPT !.calls = called]

RECURSIVE ImportUpdatedSalesLoop(_, _, _, _, _, _)
ImportUpdatedSalesLoop(st, self, i, now, update_import_date, fail) ==
    IF i > Len(self) \/ st.error # "none"
    THEN st
    ELSE ImportUpdatedSalesLoop(
            ImportUpdatedSalesBackend(st, self[i], now, update_import_date, fail),
            self, i + 1, now, update_import_date, fail)

\* ---- the other per-backend operations --------------------------------------
RECURSIVE ImportProductProductLoop(_, _, _, _, _)
ImportProductProductLoop(st, self, i, fail, report_id) ==
    IF i > Len(self)
    THEN st
    ELSE LET backend == self[i]
             called  == Append(st.calls, Call("report.import_batch.submit_inventory_request", backend, None, None))
             queued  == IF fail # backend /\ report_id
                        THEN Append(called, Call("report.with_delay.import_batch.get_inventory", backend, None, None))
                        ELSE called
         IN  \* an exception of import_batch is caught and logged: the loop goes on
             ImportProductProductLoop([st EXCEPT !.calls = queued], self, i + 1, fail, report_id)

\* sorted product ids of the product.supplierinfo rows the search returns
SupplierInfos == {<<>>, <<1>>, <<1, 1>>, <<1, 2>>, <<1, 1, 2>>}

RECURSIVE ExportProductProductLoop(_, _, _, _)
ExportProductProductLoop(st, sup_products, i, product_id) ==
    IF i > Len(sup_products)
    THEN st
    ELSE LET called == IF product_id = 0 \/ sup_products[i] # product_id
                       THEN Append(st.calls, CallArg("export_products_from_supplierinfo", None, sup_products[i]))
                       ELSE st.calls
         IN  ExportProductProductLoop([st EXCEPT !.calls = called], sup_products, i + 1, sup_products[i])

\* a method whose loop body is one call on a collaborator, per backend
RECURSIVE ForEachBackend(_, _, _, _)
ForEachBackend(st, self, i, op) ==
    IF i > Len(self)
    THEN st
    ELSE ForEachBackend([st EXCEPT !.calls = Append(st.calls, Call(op, self[i], None, None))],
                        self, i + 1, op)

UpdateProductStockQtyPrices(st, self) == ForEachBackend(st, self, 1, "product.export_batch")

\* `break` after the first backend
FixAmazonData(st, self) == ForEachBackend(st, SubSeq(self, 1, 1), 1, "fix_data.run_delayed_jobs")

ThrowFeeds(st, self) == ForEachBackend(st, self, 1, "feed.submit_feeds")

\* get_sqs_messages(backend) saves the messages it received from the queue of the
\* backend's SQS account; recv is the set of backends whose queue delivered one
RECURSIVE GetPriceChangesLoop(_, _, _, _, _)
GetPriceChangesLoop(st, self, i, sqs, recv) ==
    IF i > Len(self)
    THEN st
    ELSE LET backend == self[i]
             saved   == IF sqs[backend] /\ backend \in recv /\ Len(st.messages) < MaxMessages
                        THEN Append(st.messages, backend)
                        ELSE st.messages
         IN  GetPriceChangesLoop(
                [st EXCEPT !.calls = Append(st.calls, Call("message.get_sqs_messages", backend, None, None)),
                           !.messages = saved],
                self, i + 1, sqs, recv)

\* backends = self.env['amazon.backend'].search([]): every backend, whatever self is
GetInitialPricesAndFeesBackends(self) == Search(Backends)

GetInitialPricesAndFees(st, self) ==
    ForEachBackend(st, GetInitialPricesAndFeesBackends(self), 1, "product.get_products_initial_prices_and_fees")

\* ---- _throw_delayed_jobs_for_price_changess ----------------------------------
\* the ids (positions) of the unprocessed messages of a backend, oldest first
MessagesOf(messages, backend) ==
    SelectSeq([i \in 1..Len(messages) |-> i], LAMBDA m : messages[m] = backend)

NumberMessages(details, backend) ==
    IF details[backend] > AMAZON_NUMBER_MESSAGES_CHANGE_PRICE_RECOVER
    THEN AMAZON_NUMBER_MESSAGES_CHANGE_PRICE_RECOVER
    ELSE details[backend]

\* search(..., order='create_date asc', limit=n): the ORM applies no limit when n is 0
SelectedMessages(messages, details, backend) ==
    LET all == MessagesOf(messages, backend)
        n   == NumberMessages(details, backend)
    IN  IF n = 0 \/ n >= Len(all) THEN all ELSE SubSeq(all, 1, n)

RECURSIVE JobsForMessages(_, _, _, _)
JobsForMessages(calls, backend, selected, i) ==
    IF i > Len(selected)
    THEN calls
    ELSE JobsForMessages(Append(calls, CallArg("message.with_delay.process_price_message", backend, selected[i])),
                         backend, selected, i + 1)

RECURSIVE ThrowDelayedJobsLoop(_, _, _, _)
ThrowDelayedJobsLoop(st, backends, i, details) ==
    IF i > Len(backends)
    THEN st
    ELSE ThrowDelayedJobsLoop(
            [st EXCEPT !.calls = JobsForMessages(st.calls, backends[i],
                                                 SelectedMessages(st.messages, details, backends[i]), 1)],
            backends, i + 1, details)

\* backends = search([('sqs_account_id', '!=', False)])
ThrowDelayedJobsForPriceChangess(st, sqs, details) ==
    ThrowDelayedJobsLoop(st, Search({b \in Backends : sqs[b]}), 1, details)

\* ---- _amazon_backend --------------------------------------------------------
\* the methods the class AmazonBackend defines for the scheduler to call
Methods == {"_import_product_product", "_export_product_product", "_import_sale_orders",
            "_import_updated_sales", "_update_product_stock_qty_prices", "_fix_amazon_data",
            "_get_price_changes", "_get_initial_prices_and_fees",
            "_throw_delayed_jobs_for_price_changess", "_throw_feeds"}

\* the outcomes of the collaborators and the database rows a run reads
Inputs(now, fail, report_id, sup_products, recv, details, sqs) ==
    [now |-> now, fail |-> fail, report_id |-> report_id, sup_products |-> sup_products,
     recv |-> recv, details |-> details, sqs |-> sqs]

NoDetails == [b \in Backends |-> 0]

\* getattr(backends, callback)(): every argument of the method takes its default
CallMethod(st, callback, backends, in) ==
    CASE callback = "_import_sale_orders" ->
            ImportSaleOrdersLoop(st, backends, 1, in.now, FALSE, TRUE, in.fail, in.report_id)
      [] callback = "_import_updated_sales" ->
            ImportUpdatedSalesLoop(st, backends, 1, in.now, TRUE, in.fail)
      [] callback = "_import_product_product" ->
            ImportProductProductLoop(st, backends, 1, in.fail, in.report_id)
      [] callback = "_export_product_product" ->
            ExportProductProductLoop(st, in.sup_products, 1, 0)
      [] callback = "_update_product_stock_qty_prices" -> UpdateProductStockQtyPrices(st, backends)
      [] callback = "_fix_amazon_data" -> FixAmazonData(st, backends)
      [] callback = "_get_price_changes" -> GetPriceChangesLoop(st, backends, 1, in.sqs, in.recv)
      [] callback = "_get_initial_prices_and_fees" -> GetInitialPricesAndFees(st, backends)
      [] callback = "_throw_delayed_jobs_for_price_changess" ->
            ThrowDelayedJobsForPriceChangess(st, in.sqs, in.details)
      [] callback = "_throw_feeds" -> ThrowFeeds(st, backends)

AmazonBackend(st, callback, domain, in) ==
    LET backends == Search(domain)
    IN  IF st.error # "none" \/ Len(backends) = 0
        THEN st
        ELSE IF callback \notin Methods
             THEN [st EXCEPT !.error = "AttributeError"]
             ELSE CallMethod([st EXCEPT !.start = None, !.end = None], callback, backends, in)

\* ---- the record of a scheduler run ---------------------------------------------
Run(entry, self, details, st) ==
    [entry |-> entry, self |-> self, details |-> details, calls |-> st.calls, error |-> st.error]

NoRun == Run("none", <<>>, NoDetails, RunState(<<>>, <<>>, <<>>, None, None))

IsSaleImport(c) == c.op \in {"sale.import_batch", "report.import_batch.submit_sales_request"}

\* the date_end the previous _import_sale_orders run gave import_batch for a backend, when
\* that run took no explicit window and wrote the watermark (qualifying); kept by a run
\* that does not write the watermark, dropped when another kind of run writes it
PrevDateEnd(prev, calls, qualifying) ==
    [b \in Backends |->
        IF \E i \in 1..Len(calls) : calls[i].op = "write.import_sales_from_date" /\ calls[i].backend = b
        THEN IF qualifying
             THEN calls[CHOOSE i \in 1..Len(calls) : IsSaleImport(calls[i]) /\ calls[i].backend = b].date_end
             ELSE None
        ELSE prev[b]]

Current == RunState(import_sales_from_date, import_updated_sales_from_date, sqs_messages, None, None)

\* what a run leaves in the database (committing or rolling back is the caller's)
Commit(st, qualifying) ==
    /\ import_sales_from_date' = st.sales
    /\ import_updated_sales_from_date' = st.updated
    /\ sqs_messages' = st.messages
    /\ prev_date_end' = PrevDateEnd(prev_date_end, st.calls, qualifying)
    /\ UNCHANGED <<clock, sqs_account_id>>

\* ---- the sale imports, called with arguments --------------------------------------
Times == {None, ExplicitTime}

\* import_batch raises at backend fail (0: at none); a run stops at the first raise
Fails(domain) == {0} \cup domain

SaleOrdersRun(self, import_start_time, import_end_time, generate_report, update_import_date, fail, report_id) ==
    ImportSaleOrdersLoop([Current EXCEPT !.start = import_start_time, !.end = import_end_time],
                         self, 1, clock, generate_report, update_import_date, fail, report_id)

UpdatedSalesRun(self, import_start_time, import_end_time, update_import_date, fail) ==
    ImportUpdatedSalesLoop([Current EXCEPT !.start = import_start_time, !.end = import_end_time],
                           self, 1, clock, update_import_date, fail)

\* ---- actions ------------------------------------------------------------------
Tick ==
    /\ clock < FirstClock + MaxTicks
    /\ clock' = clock + 1
    /\ UNCHANGED <<import_sales_from_date, import_updated_sales_from_date,
                   sqs_account_id, sqs_messages, prev_date_end, lastRun>>

_import_sale_orders ==
    \E domain \in Domains, import_start_time \in Times, import_end_time \in Times,
       generate_report \in BOOLEAN, update_import_date \in BOOLEAN :
        \E fail \in Fails(domain), report_id \in (IF generate_report THEN BOOLEAN ELSE {FALSE}) :
            /\ Commit(SaleOrdersRun(Search(domain), import_start_time, import_end_time,
                                    generate_report, update_import_date, fail, report_id),
                      import_start_time = None /\ import_end_time = None /\ update_import_date)
            /\ UNCHANGED lastRun

_import_updated_sales ==
    \E domain \in Domains, import_start_time \in Times, import_end_time \in Times,
       update_import_date \in BOOLEAN :
        \E fail \in Fails(domain) :
            /\ Commit(UpdatedSalesRun(Search(domain), import_start_time, import_end_time,
                                      update_import_date, fail),
                      FALSE)
            /\ UNCHANGED lastRun

_scheduler_import_sale_orders ==
    \E domain \in Domains : \E fail1 \in Fails(domain), fail2 \in Fails(domain) :
        LET in1 == Inputs(clock, fail1, FALSE, <<>>, {}, NoDetails, sqs_account_id)
            in2 == Inputs(clock, fail2, FALSE, <<>>, {}, NoDetails, sqs_account_id)
            st  == AmazonBackend(AmazonBackend(Current, "_import_sale_orders", domain, in1),
                                 "_import_updated_sales", domain, in2)
        IN  /\ Commit(st, TRUE)
            /\ lastRun' = Run("_scheduler_import_sale_orders", Search(domain), NoDetails, st)

_scheduler_import_product_product ==
    \E domain \in Domains, report_id \in BOOLEAN : \E fail \in Fails(domain) :
        LET in == Inputs(clock, fail, report_id, <<>>, {}, NoDetails, sqs_account_id)
            st == AmazonBackend(Current, "_import_product_product", domain, in)
        IN  /\ Commit(st, TRUE)
            /\ lastRun' = Run("_scheduler_import_product_product", Search(domain), in.details, st)

_scheduler_export_product_product ==
    \E domain \in Domains, sup_products \in SupplierInfos :
        LET in == Inputs(clock, 0, FALSE, sup_products, {}, NoDetails, sqs_account_id)
            st == AmazonBackend(Current, "_export_product_product", domain, in)
        IN  /\ Commit(st, TRUE)
            /\ lastRun' = Run("_scheduler_export_product_product", Search(domain), in.details, st)

_scheduler_update_product_prices_stock_qty ==
    \E domain \in Domains :
        LET in == Inputs(clock, 0, FALSE, <<>>, {}, NoDetails, sqs_account_id)
            st == AmazonBackend(Current, "_update_product_stock_qty_prices", domain, in)
        IN  /\ Commit(st, TRUE)
            /\ lastRun' = Run("_scheduler_update_product_prices_stock_qty", Search(domain), in.details, st)

_scheduler_connector_amazon_fix_data ==
    \E domain \in Domains :
        LET in == Inputs(clock, 0, FALSE, <<>>, {}, NoDetails, sqs_account_id)
            st == AmazonBackend(Current, "_fix_amazon_data", domain, in)
        IN  /\ Commit(st, TRUE)
            /\ lastRun' = Run("_scheduler_connector_amazon_fix_data", Search(domain), in.details, st)

_scheduler_get_price_changes ==
    \E domain \in Domains, recv \in SUBSET Backends :
        LET in == Inputs(clock, 0, FALSE, <<>>, recv, NoDetails, sqs_account_id)
            st == AmazonBackend(Current, "_get_price_changes", domain, in)
        IN  /\ Commit(st, TRUE)
            /\ lastRun' = Run("_scheduler_get_price_changes", Search(domain), in.details, st)

_scheduler_throw_jobs_for_price_changes ==
    \E domain \in Domains, details \in [Backends -> 0..MaxDetails] :
        LET in == Inputs(clock, 0, FALSE, <<>>, {}, details, sqs_account_id)
            st == AmazonBackend(Current, "_throw_delayed_jobs_for_price_changes", domain, in)
        IN  /\ Commit(st, TRUE)
            /\ lastRun' = Run("_scheduler_throw_jobs_for_price_changes", Search(domain), in.details, st)

_scheduler_throw_feeds ==
    \E domain \in Domains :
        LET in == Inputs(clock, 0, FALSE, <<>>, {}, NoDetails, sqs_account_id)
            st == AmazonBackend(Current, "_throw_feeds", domain, in)
        IN  /\ Commit(st, TRUE)
            /\ lastRun' = Run("_scheduler_throw_feeds", Search(domain), in.details, st)

_scheduler_get_initial_prices_and_fees ==
    \E domain \in Domains :
        LET in == Inputs(clock, 0, FALSE, <<>>, {}, NoDetails, sqs_account_id)
            st == AmazonBackend(Current, "_get_initial_prices_and_fees", domain, in)
        IN  /\ Commit(st, TRUE)
            /\ lastRun' = Run("_scheduler_get_initial_prices_and_fees", Search(domain), in.details, st)

\* the method the scheduler means to reach, run under its real name
_throw_delayed_jobs_for_price_changess ==
    \E details \in [Backends -> 0..MaxDetails] :
        LET st == ThrowDelayedJobsForPriceChangess(Current, sqs_account_id, details)
        IN  /\ Commit(st, TRUE)
            /\ lastRun' = Run("_throw_delayed_jobs_for_price_changess", <<>>, details, st)

\* ---- specifications -------------------------------------------------------------
\* freshly created backends: no watermark, nothing run yet
InitBackends ==
    /\ clock = FirstClock
    /\ import_sales_from_date = [b \in Backends |-> NoDate]
    /\ import_updated_sales_from_date = [b \in Backends |-> NoDate]
    /\ sqs_messages = <<>>
    /\ prev_date_end = [b \in Backends |-> None]
    /\ lastRun = NoRun

\* the two sale imports, called with every combination of their arguments
Init ==
    /\ InitBackends
    /\ sqs_account_id = [b \in Backends |-> FALSE]

Next ==
    \/ Tick
    \/ _import_sale_orders
    \/ _import_updated_sales

Spec == Init /\ [][Next]_vars

\* every scheduler entry point, on backends with or without an SQS account
InitSchedulers ==
    /\ InitBackends
    /\ sqs_account_id \in [Backends -> BOOLEAN]

NextSchedulers ==
    \/ Tick
    \/ _scheduler_import_sale_orders
    \/ _scheduler_import_product_product
    \/ _scheduler_export_product_product
    \/ _scheduler_update_product_prices_stock_qty
    \/ _scheduler_connector_amazon_fix_data
    \/ _scheduler_get_price_changes
    \/ _scheduler_throw_jobs_for_price_changes
    \/ _scheduler_throw_feeds
    \/ _scheduler_get_initial_prices_and_fees
    \/ _throw_delayed_jobs_for_price_changess

SpecSchedulers == InitSchedulers /\ [][NextSchedulers]_vars

\* ---- reading a call trace -----------------------------------------------------------
Position(self, backend) == CHOOSE k \in 1..Len(self) : self[k] = backend

\* every write of writeOp in the trace follows, for the same backend, a call of importOps
\* that returned (the backend is not the one import_batch raised at)
WrittenAfterReturn(st, fail, importOps, writeOp) ==
    \A j \in 1..Len(st.calls) :
        st.calls[j].op = writeOp =>
            /\ \E i \in 1..(j - 1) :
                  st.calls[i].op \in importOps /\ st.calls[i].backend = st.calls[j].backend
            /\ ~(st.error = "import_batch" /\ st.calls[j].backend = fail)

\* a watermark differs from its value before the run only where the trace holds its write
ChangedOnlyByWrite(st, before, after, writeOp) ==
    \A b \in Backends :
        after[b] # before[b] =>
            \E j \in 1..Len(st.calls) : st.calls[j].op = writeOp /\ st.calls[j].backend = b

\* import_batch raised at backend fail: the raising call ends the trace, and the backends
\* from fail on keep their watermark and (those after fail) get no call
StoppedAtRaise(st, self, fail, before, after, importOps) ==
    st.error = "import_batch" =>
        /\ st.calls # <<>>
        /\ st.calls[Len(st.calls)].op \in importOps
        /\ st.calls[Len(st.calls)].backend = fail
        /\ \A k \in 1..Len(self) :
              k >= Position(self, fail) =>
                  /\ after[self[k]] = before[self[k]]
                  /\ k > Position(self, fail) =>
                        \A i \in 1..Len(st.calls) : st.calls[i].backend # self[k]

SaleImportOps == {"sale.import_batch", "report.import_batch.submit_sales_request"}

UpdateImportOps == {"sale.import_batch.update"}

\* ---- C6 -----------------------------------------------------------------------------
\* C6: in every run of _import_sale_orders and of _import_updated_sales, from every state
\* and with every argument, a backend's watermark (import_sales_from_date, respectively
\* import_updated_sales_from_date) is written only after import_batch returned for that
\* backend; when import_batch raises for a backend, its watermark and those of the
\* backends after it in the recordset are unchanged and nothing more is called.
C6_WatermarkAfterImport ==
    \A domain \in Domains, import_start_time \in Times, import_end_time \in Times,
       update_import_date \in BOOLEAN :
        \A fail \in Fails(domain) :
            /\ \A generate_report \in BOOLEAN, self \in {Search(domain)} :
                  \A report_id \in (IF generate_report THEN BOOLEAN ELSE {FALSE}) :
                  \A st \in {SaleOrdersRun(self, import_start_time, import_end_time,
                                           generate_report, update_import_date, fail, report_id)} :
                      /\ WrittenAfterReturn(st, fail, SaleImportOps, "write.import_sales_from_date")
                      /\ ChangedOnlyByWrite(st, import_sales_from_date, st.sales,
                                            "write.import_sales_from_date")
                      /\ StoppedAtRaise(st, self, fail, import_sales_from_date, st.sales, SaleImportOps)
                      /\ (fail # 0 => st.error = "import_batch")
            /\ \A self \in {Search(domain)} :
                  \A st \in {UpdatedSalesRun(self, import_start_time, import_end_time,
                                             update_import_date, fail)} :
                      /\ WrittenAfterReturn(st, fail, UpdateImportOps, "write.import_updated_sales_from_date")
                      /\ ChangedOnlyByWrite(st, import_updated_sales_from_date, st.updated,
                                            "write.import_updated_sales_from_date")
                      /\ StoppedAtRaise(st, self, fail, import_updated_sales_from_date, st.updated,
                                        UpdateImportOps)

\* both watermarks of backends 1 and 2 are set by earlier runs, and a run of each import
\* over <<1, 2>> advances the watermark of backend 1 and raises at backend 2
C6_Witness ==
    /\ \A b \in {1, 2} : import_sales_from_date[b] # NoDate /\ import_updated_sales_from_date[b] # NoDate
    /\ LET st == SaleOrdersRun(<<1, 2>>, None, None, FALSE, TRUE, 2, FALSE)
       IN  /\ st.error = "import_batch"
           /\ st.sales[1] # import_sales_from_date[1]
           /\ st.sales[2] = import_sales_from_date[2]
    /\ LET st == UpdatedSalesRun(<<1, 2>>, None, None, TRUE, 2)
       IN  /\ st.error = "import_batch"
           /\ st.updated[1] # import_updated_sales_from_date[1]
           /\ st.updated[2] = import_updated_sales_from_date[2]

\* ---- C2 -----------------------------------------------------------------------------
\* C2: over the _import_sale_orders runs on a backend that take no explicit start or end
\* and update the import date, the windows are contiguous: the watermark a run leaves is
\* the date_end it gave import_batch, and the date_start the next run on that backend
\* gives import_batch is that date_end.
C2_ContiguousWindows ==
    \A b \in Backends :
        /\ prev_date_end[b] # None =>
              /\ import_sales_from_date[b] # NoDate
              /\ strptime(import_sales_from_date[b]) = prev_date_end[b]
        /\ \A generate_report \in BOOLEAN, report_id \in BOOLEAN :
              \A st \in {SaleOrdersRun(<<b>>, None, None, generate_report, TRUE, 0, report_id)} :
                  LET c == st.calls[1]
                  IN  /\ IsSaleImport(c) /\ c.backend = b
                      /\ prev_date_end[b] # None => c.date_start = prev_date_end[b]
                      /\ st.sales[b] # NoDate /\ strptime(st.sales[b]) = c.date_end
                      /\ PrevDateEnd(prev_date_end, st.calls, TRUE)[b] = c.date_end

\* a backend whose previous such run ended its window at a whole second after a clock
\* reading with a sub-second part, and whose next run has a later end: a window that is
\* not empty follows the previous one
C2_Witness ==
    \E b \in Backends :
        /\ prev_date_end[b] # None
        /\ LET st == SaleOrdersRun(<<b>>, None, None, FALSE, TRUE, 0, FALSE)
           IN  /\ st.calls[1].date_start = prev_date_end[b]
               /\ st.calls[1].date_end > prev_date_end[b]

\* ---- C1 -----------------------------------------------------------------------------
\* the jobs _throw_delayed_jobs_for_price_changess creates from the current database
ExpectedJobs(details) ==
    ThrowDelayedJobsForPriceChangess(Current, sqs_account_id, details).calls

\* C1: a run of _scheduler_throw_jobs_for_price_changes whose domain matches a backend
\* ends without error, having created one process_price_message job for every
\* unprocessed message selected for the backends that have an SQS account.
C1_SchedulerThrowsJobs ==
    (lastRun.entry = "_scheduler_throw_jobs_for_price_changes" /\ lastRun.self # <<>>) =>
        /\ lastRun.error = "none"
        /\ lastRun.calls = ExpectedJobs(lastRun.details)

\* ---- C3 -----------------------------------------------------------------------------
\* C3: when the scheduler runs _import_sale_orders (no explicit start) over its recordset,
\* the date_start given to import_batch for each backend is that backend's own
\* import_sales_from_date when it is set, and the date_end of the call otherwise.
C3_OwnStartDate ==
    [][(lastRun'.entry = "_scheduler_import_sale_orders" /\ clock' = clock) =>
          \A i \in 1..Len(lastRun'.calls) :
              LET c == lastRun'.calls[i]
              IN  IsSaleImport(c) =>
                      c.date_start = IF import_sales_from_date[c.backend] # NoDate
                                     THEN strptime(import_sales_from_date[c.backend])
                                     ELSE c.date_end]_vars

\* ---- C4 -----------------------------------------------------------------------------
SchedulerEntries ==
    {"_scheduler_import_sale_orders", "_scheduler_import_product_product",
     "_scheduler_export_product_product", "_scheduler_update_product_prices_stock_qty",
     "_scheduler_connector_amazon_fix_data", "_scheduler_get_price_changes",
     "_scheduler_throw_jobs_for_price_changes", "_scheduler_throw_feeds",
     "_scheduler_get_initial_prices_and_fees"}

\* C4: in a run of any _scheduler_* entry point, every call made for a backend is for a
\* backend the domain matches; when the domain matches none, nothing is called and no
\* error is raised.
C4_OnlyMatchingBackends ==
    lastRun.entry \in SchedulerEntries =>
        /\ \A i \in 1..Len(lastRun.calls) :
              lastRun.calls[i].backend # None =>
                  \E k \in 1..Len(lastRun.self) : lastRun.self[k] = lastRun.calls[i].backend
        /\ lastRun.self = <<>> => (lastRun.calls = <<>> /\ lastRun.error = "none")

\* ---- C5 -----------------------------------------------------------------------------
\* C5: in a run of _scheduler_import_sale_orders, whenever _import_updated_sales parses
\* import_updated_sales_from_date as the window start, the field is not empty (so no
\* TypeError ends the run).
C5_ParsedDateIsSet ==
    lastRun.entry = "_scheduler_import_sale_orders" =>
        /\ \A i \in 1..Len(lastRun.calls) :
              lastRun.calls[i].op = "strptime.import_updated_sales_from_date" =>
                  lastRun.calls[i].date_start # NoDate
        /\ lastRun.error # "TypeError"

====
